---- MODULE Spec2Model ----
(***************************************************************************)
(* A model of the ray marcher: the sphere-tracing engine, the Julia set     *)
(* estimator and the surface normal (distance.rs), the Blinn-Phong         *)
(* accumulator (light.rs), the viewport (camera.rs), scene construction    *)
(* (serialize.rs) and the image buffer (img.rs).                           *)
(*                                                                         *)
(* Each component is driven by a specification of its own (SpecEstimate,   *)
(* SpecLighting, ...); a component that a specification does not drive     *)
(* stays in its Off state.                                                 *)
(***************************************************************************)
EXTENDS Integers, Sequences, FiniteSets, TLC

VARIABLES
    geom,   \* distance::Geometry: max_steps, epsilon, cutoff; sample_size for normal()
    tr,     \* one call of Geometry::estimate: its locals and its result
    de,     \* the estimator: the distances it has returned, by position
    bp,     \* light::BlinnPhong and one call of its lighting()
    view,   \* camera::Viewport, a camera::Render of it, and one call of ray() or height()
    sc,     \* serialize::Scene and the result of building a render::Scene from it
    img,    \* img::ImageData and the calls of the pixel function
    jl,     \* distance::Julia and one call of its estimate(): q, q' and the result
    nm      \* one call of Geometry::normal: its six queries and its result

vars == <<geom, tr, de, bp, view, sc, img, jl, nm>>

\* the variables of each component
estimateVars == <<geom, tr, de>>
lightingVars == <<bp>>
viewVars == <<view>>
sceneVars == <<sc>>
imageVars == <<img>>
juliaVars == <<jl>>
normalVars == <<nm>>

Off == [pc |-> "off"]

(***************************************************************************)
(* Floating point values (T: Float).  A value is a finite number, held as  *)
(* an integer, or one of +inf, -inf, NaN, with IEEE 754 arithmetic and     *)
(* comparisons on the special values.  Rounding is not modelled.           *)
(***************************************************************************)
F(n) == [k |-> "fin", v |-> n]
NaN == [k |-> "nan", v |-> 0]
PInf == [k |-> "inf", v |-> 1]
NInf == [k |-> "inf", v |-> -1]

IsNaN(a) == a.k = "nan"
IsInfinite(a) == a.k = "inf"
IsFinite(a) == a.k = "fin"

Sign(n) == IF n > 0 THEN 1 ELSE IF n < 0 THEN -1 ELSE 0
Abs(n) == IF n < 0 THEN -n ELSE n

\* a + b
FAdd(a, b) ==
    IF IsNaN(a) \/ IsNaN(b) THEN NaN
    ELSE IF IsInfinite(a) /\ IsInfinite(b) THEN (IF a.v = b.v THEN a ELSE NaN)
    ELSE IF IsInfinite(a) THEN a
    ELSE IF IsInfinite(b) THEN b
    ELSE F(a.v + b.v)

\* a * b
FMul(a, b) ==
    IF IsNaN(a) \/ IsNaN(b) THEN NaN
    ELSE IF IsInfinite(a) \/ IsInfinite(b)
         THEN (IF Sign(a.v) * Sign(b.v) = 0 THEN NaN
               ELSE [k |-> "inf", v |-> Sign(a.v) * Sign(b.v)])
    ELSE F(a.v * b.v)

FNeg(a) == IF IsNaN(a) THEN NaN ELSE [k |-> a.k, v |-> -a.v]
FSub(a, b) == FAdd(a, FNeg(b))

\* a < b; false when either is NaN
FLt(a, b) ==
    /\ ~IsNaN(a)
    /\ ~IsNaN(b)
    /\ IF IsInfinite(a) /\ IsInfinite(b) THEN a.v < b.v
       ELSE IF IsInfinite(a) THEN a.v < 0
       ELSE IF IsInfinite(b) THEN b.v > 0
       ELSE a.v < b.v

\* a <= b, a > b, a >= b; false when either is NaN
FLe(a, b) == ~IsNaN(a) /\ ~IsNaN(b) /\ ~FLt(b, a)
FGt(a, b) == FLt(b, a)
FGe(a, b) == FLe(b, a)

(***************************************************************************)
(* vek::Vec3<T>: a triple of floating point values.                        *)
(***************************************************************************)
V3(x, y, z) == <<F(x), F(y), F(z)>>
VAdd(a, b) == <<FAdd(a[1], b[1]), FAdd(a[2], b[2]), FAdd(a[3], b[3])>>
VSub(a, b) == <<FSub(a[1], b[1]), FSub(a[2], b[2]), FSub(a[3], b[3])>>
VScale(a, s) == <<FMul(a[1], s), FMul(a[2], s), FMul(a[3], s)>>
VDot(a, b) == FAdd(FAdd(FMul(a[1], b[1]), FMul(a[2], b[2])), FMul(a[3], b[3]))

\* the square root of a perfect square
ISqrt(n) == CHOOSE r \in 0..n : r * r = n
IsSquare(n) == \E r \in 0..n : r * r = n

\* |a|, for the vectors whose length is a whole number
VMagnitude(a) ==
    LET m2 == VDot(a, a)
    IN IF IsNaN(m2) THEN NaN
       ELSE IF IsInfinite(m2) THEN PInf
       ELSE F(ISqrt(m2.v))

\* a / b; finite quotients are whole numbers in the models below
FDiv(a, b) ==
    IF IsNaN(a) \/ IsNaN(b) THEN NaN
    ELSE IF IsInfinite(a) /\ IsInfinite(b) THEN NaN
    ELSE IF IsInfinite(a) THEN [k |-> "inf", v |-> IF b.v < 0 THEN -a.v ELSE a.v]
    ELSE IF IsInfinite(b) THEN F(0)
    ELSE IF b.v = 0
         THEN (IF a.v = 0 THEN NaN ELSE [k |-> "inf", v |-> Sign(a.v)])
    ELSE F(Sign(a.v) * Sign(b.v) * (Abs(a.v) \div Abs(b.v)))

\* a.powf(n) for a whole number n >= 0: powf(x, 0) is 1 for every x, NaN too
RECURSIVE FPowf(_, _)
FPowf(a, n) == IF n = 0 THEN F(1) ELSE FMul(a, FPowf(a, n - 1))

\* v.normalized() is v / v.magnitude(): NaN in each component for the zero vector
Normalized(a) ==
    LET m == VMagnitude(a)
    IN <<FDiv(a[1], m), FDiv(a[2], m), FDiv(a[3], m)>>

(***************************************************************************)
(* Option<Vec3<T>>                                                         *)
(***************************************************************************)
None == [some |-> FALSE, val |-> V3(0, 0, 0)]
Some(p) == [some |-> TRUE, val |-> p]

(***************************************************************************)
(* The inputs of the sphere tracer.                                        *)
(***************************************************************************)
MaxSteps == 3
MaxDist == 2

Epsilons == {-2, 0, 1}
Cutoffs == {-1, 1, 3}
Origins == {V3(0, 0, 0)}
Rots == {V3(1, 0, 0), V3(0, 0, -1), V3(2, 0, 0)}
\* what an estimator may return: any finite distance, an infinity or NaN
Dists == {F(n) : n \in (-MaxDist)..MaxDist} \cup {NaN, PInf, NInf}

(***************************************************************************)
(* Estimator::estimate(&self, pos) -> T.  The estimator is a function of   *)
(* the position: a position it was asked about before gets the same        *)
(* answer, a new position gets any answer.                                 *)
(***************************************************************************)
Answers(memo, p) ==
    IF \E a \in memo : a[1] = p
    THEN {a[2] : a \in {b \in memo : b[1] = p}}
    ELSE Dists

(***************************************************************************)
(* Geometry::estimate                                                      *)
(***************************************************************************)
\* for _ in 0..self.max_steps (LoopRunsInclusive: were it 0..=self.max_steps)
LoopRunsInclusive(step, max_steps) == step <= max_steps
LoopRuns(step, max_steps) == step < max_steps

\* let measure_pos = pos + rot * total_dist
MeasurePos(pos, rot, total_dist) == VAdd(pos, VScale(rot, total_dist))

\* if dist <= self.epsilon
IsHit(dist, epsilon) == FLe(dist, epsilon)

\* else if total_dist >= self.cutoff || total_dist.is_infinite()
\* (IsLostStrict: were it >; IsLostOnlyInfinite: were the comparison left out)
IsLostStrict(total_dist, cutoff) == FGt(total_dist, cutoff) \/ IsInfinite(total_dist)
IsLostOnlyInfinite(total_dist, cutoff) == IsInfinite(total_dist)
IsLost(total_dist, cutoff) == FGe(total_dist, cutoff) \/ IsInfinite(total_dist)

\* return Some(measure_pos): the position measured, total_dist being already
\* advanced (HitPointAdvanced: were it pos + rot * total_dist)
HitPointAdvanced(measure_pos, pos, rot, total_dist) == MeasurePos(pos, rot, total_dist)
HitPoint(measure_pos, pos, rot, total_dist) == measure_pos

InitGeometry ==
    geom \in [max_steps : 0..MaxSteps, epsilon : {F(e) : e \in Epsilons},
              cutoff : {F(c) : c \in Cutoffs}]

\* estimate(&self, pos, rot): let mut total_dist = 0
EstimateCall ==
    /\ tr.pc = "idle"
    /\ \E pos \in Origins, rot \in Rots :
          tr' = [pc |-> "loop", pos |-> pos, rot |-> rot, total_dist |-> F(0),
                 step |-> 0, log |-> <<>>, result |-> None]
    /\ UNCHANGED <<geom, de, lightingVars, viewVars, sceneVars, imageVars, juliaVars, normalVars>>

\* one iteration of the loop
EstimateStep ==
    /\ tr.pc = "loop"
    /\ LoopRuns(tr.step, geom.max_steps)
    /\ LET measure_pos == MeasurePos(tr.pos, tr.rot, tr.total_dist)
       IN \E dist \in Answers(de, measure_pos) :
             LET total_dist == FAdd(tr.total_dist, dist)
                 entry == [p |-> measure_pos, d |-> dist, t |-> total_dist]
                 next == [tr EXCEPT !.total_dist = total_dist,
                                    !.step = tr.step + 1,
                                    !.log = Append(tr.log, entry)]
             IN /\ de' = de \cup {<<measure_pos, dist>>}
                /\ tr' = IF IsHit(dist, geom.epsilon)
                         THEN [next EXCEPT !.pc = "done",
                                  !.result = Some(HitPoint(measure_pos, tr.pos,
                                                           tr.rot, total_dist))]
                         ELSE IF IsLost(total_dist, geom.cutoff)
                         THEN [next EXCEPT !.pc = "done", !.result = None]
                         ELSE next
    /\ UNCHANGED <<geom, lightingVars, viewVars, sceneVars, imageVars, juliaVars, normalVars>>

\* the loop is over: None
EstimateExhausted ==
    /\ tr.pc = "loop"
    /\ ~LoopRuns(tr.step, geom.max_steps)
    /\ tr' = [tr EXCEPT !.pc = "done", !.result = None]
    /\ UNCHANGED <<geom, de, lightingVars, viewVars, sceneVars, imageVars, juliaVars, normalVars>>

InitEstimate ==
    /\ InitGeometry
    /\ tr = [pc |-> "idle"]
    /\ de = {}
    /\ bp = Off /\ view = Off /\ sc = Off /\ img = Off /\ jl = Off /\ nm = Off

NextEstimate == EstimateCall \/ EstimateStep \/ EstimateExhausted

SpecEstimate == InitEstimate /\ [][NextEstimate]_vars

(***************************************************************************)
(* Properties of Geometry::estimate                                        *)
(***************************************************************************)
Called == tr.pc \in {"loop", "done"}
Done == tr.pc = "done"
Last == tr.log[Len(tr.log)]
\* total_dist as it was when the last position was measured
TotalBeforeLast == IF Len(tr.log) = 1 THEN F(0) ELSE tr.log[Len(tr.log) - 1].t
\* step i of the march found the surface / went past the cutoff or to infinity
HitAt(i) == FLe(tr.log[i].d, geom.epsilon)
CutoffMissAt(i) == FGe(tr.log[i].t, geom.cutoff) \/ IsInfinite(tr.log[i].t)
UnitRot == VMagnitude(tr.rot) = F(1)
ResultDistance == VMagnitude(VSub(tr.result.val, tr.pos))

\* C1: estimate asks the estimator at most max_steps times and never gets
\* stuck in the loop; when all max_steps queries are made and none is a hit
\* or a cutoff miss, the result is None.
C1_WithinMaxSteps ==
    /\ Called => Len(tr.log) <= geom.max_steps
    /\ tr.pc = "loop" => ENABLED NextEstimate
    /\ (/\ Done
        /\ Len(tr.log) = geom.max_steps
        /\ \A i \in 1..Len(tr.log) : ~HitAt(i) /\ ~CutoffMissAt(i))
       => tr.result = None

C1_Witness ==
    /\ Done
    /\ geom.max_steps >= 2
    /\ Len(tr.log) = geom.max_steps
    /\ \A i \in 1..Len(tr.log) : ~HitAt(i) /\ ~CutoffMissAt(i)

\* C2: a returned point is the position of the last query, pos + rot * t with
\* t as it was before that query's distance was added, and the estimator's
\* value there is <= epsilon.
C2_HitIsMeasuredPos ==
    (Done /\ tr.result.some) =>
        /\ Len(tr.log) >= 1
        /\ tr.result.val = Last.p
        /\ tr.result.val = MeasurePos(tr.pos, tr.rot, TotalBeforeLast)
        /\ \A a \in de : a[1] = tr.result.val => FLe(a[2], geom.epsilon)
        /\ \E a \in de : a[1] = tr.result.val

C2_Witness ==
    /\ Done
    /\ tr.result.some
    /\ Len(tr.log) >= 2
    /\ IsFinite(Last.d) /\ Last.d.v # 0
    /\ tr.result.val # MeasurePos(tr.pos, tr.rot, tr.total_dist)

C10_LostIsMiss ==
    (/\ Done
     /\ \E i \in 1..Len(tr.log) :
           /\ FGt(tr.log[i].d, geom.epsilon)
           /\ FGe(tr.log[i].t, geom.cutoff) \/ ~IsFinite(tr.log[i].t))
    => tr.result = None

\* the total is NaN at a step whose distance is > epsilon
C10_Witness ==
    /\ Done
    /\ \E i \in 1..Len(tr.log) :
          FGt(tr.log[i].d, geom.epsilon) /\ IsNaN(tr.log[i].t)

(***************************************************************************)
(* Colours: palette::Alpha<C, T>, with one colour channel.  1 is the full  *)
(* intensity.                                                              *)
(***************************************************************************)
Color(c, a) == [color |-> F(c), alpha |-> F(a)]
\* Alpha::default(): the default colour, opaque
AlphaDefault == Color(0, 1)

\* Alpha<C, T> * T scales the colour and the alpha
CMul(c, s) == [color |-> FMul(c.color, s), alpha |-> FMul(c.alpha, s)]

\* palette::clamp: if v < min { min } else if v > max { max } else { v }
Clamp(v, lo, hi) == IF FLt(v, lo) THEN lo ELSE IF FGt(v, hi) THEN hi ELSE v

\* f.is_normal(): neither zero, infinite nor NaN
IsNormal(a) == IsFinite(a) /\ a.v # 0

\* Blend::into_premultiplied, Blend::from_premultiplied
IntoPremultiplied(c) ==
    LET alpha == Clamp(c.alpha, F(0), F(1))
    IN [color |-> FMul(c.color, alpha), alpha |-> alpha]
FromPremultiplied(c) ==
    LET alpha == Clamp(c.alpha, F(0), F(1))
    IN [color |-> IF IsNormal(alpha) THEN FDiv(c.color, alpha) ELSE F(0),
        alpha |-> alpha]

\* Blend::plus: the premultiplied colours added and clamped to [0, 1]
Plus(a, b) ==
    LET src == IntoPremultiplied(a)
        dst == IntoPremultiplied(b)
    IN FromPremultiplied([color |-> Clamp(FAdd(src.color, dst.color), F(0), F(1)),
                          alpha |-> Clamp(FAdd(src.alpha, dst.alpha), F(0), F(1))])

(***************************************************************************)
(* BlinnPhong::lighting                                                    *)
(***************************************************************************)
MaxLights == 2
MaxShininess == 2

\* the camera looks along z; a light faces along the view axis, or nowhere
Directions == {V3(0, 0, 1)}
LightRots == {V3(0, 0, 1), V3(0, 0, -1), V3(0, 0, 0)}
LightColors == {Color(0, 0), Color(1, 1)}
Lights == [rot : LightRots,
           col : [ambient : LightColors, diffuse : LightColors,
                  specular : LightColors]]
Normals == {V3(0, 0, 1), V3(0, 0, -1), V3(1, 0, 0)}
Materials == [ambient : {F(0), F(1)}, diffuse : {F(0), F(1)},
              specular : {F(0), F(1)}, shininess : 0..MaxShininess]

SeqsUpTo(S, n) == UNION {[1..k -> S] : k \in 0..n}

\* let halfway = (self.viewport.cam.direction + light.rot).normalized()
Halfway(direction, light) == Normalized(VAdd(direction, light.rot))

\* light.rot.dot(normal)
DiffuseFactor(light, normal) == VDot(light.rot, normal)

\* normal.dot(halfway).powf(mat.shininess)
SpecularFactor(normal, halfway, mat) == FPowf(VDot(normal, halfway), mat.shininess)

\* one light added to the colour so far: the colour after each of the three
\* plus() calls, next to the dot products they were made with
AddLight(color, light, direction, normal, mat) ==
    LET halfway == Halfway(direction, light)
        c1 == Plus(color, CMul(light.col.ambient, mat.ambient))
        c2 == Plus(c1, CMul(CMul(light.col.diffuse, mat.diffuse),
                            DiffuseFactor(light, normal)))
        c3 == Plus(c2, CMul(CMul(light.col.specular, mat.specular),
                            SpecularFactor(normal, halfway, mat)))
    IN [before |-> color, ambient |-> c1, diffuse |-> c2, specular |-> c3,
        ldotn |-> VDot(light.rot, normal), ndoth |-> VDot(normal, halfway)]

\* for light in &self.lights { ... }: what each light did, in order
RECURSIVE LightingLog(_, _, _, _, _)
LightingLog(color, lights, direction, normal, mat) ==
    IF lights = <<>> THEN <<>>
    ELSE LET e == AddLight(color, Head(lights), direction, normal, mat)
         IN <<e>> \o LightingLog(e.specular, Tail(lights), direction, normal, mat)

\* lighting(&self, normal, mat)
Lighting(lights, direction, normal, mat) ==
    LET log == LightingLog(AlphaDefault, lights, direction, normal, mat)
    IN IF log = <<>> THEN AlphaDefault ELSE log[Len(log)].specular

InitLighting ==
    /\ bp \in [pc : {"idle"}, direction : Directions, lights : SeqsUpTo(Lights, MaxLights)]
    /\ geom = Off /\ tr = Off /\ de = Off /\ view = Off /\ sc = Off /\ img = Off /\ jl = Off /\ nm = Off

LightingCall ==
    /\ bp.pc = "idle"
    /\ \E normal \in Normals, mat \in Materials :
          bp' = [pc |-> "done", direction |-> bp.direction, lights |-> bp.lights,
                 normal |-> normal, mat |-> mat,
                 log |-> LightingLog(AlphaDefault, bp.lights, bp.direction, normal, mat),
                 result |-> Lighting(bp.lights, bp.direction, normal, mat)]
    /\ UNCHANGED <<estimateVars, viewVars, sceneVars, imageVars, juliaVars, normalVars>>

NextLighting == LightingCall

SpecLighting == InitLighting /\ [][NextLighting]_vars

\* the sequence without its i-th element
RemoveAt(s, i) == [j \in 1..(Len(s) - 1) |-> IF j < i THEN s[j] ELSE s[j + 1]]
IsZeroLight(light) ==
    /\ light.col.ambient = Color(0, 0)
    /\ light.col.diffuse = Color(0, 0)
    /\ light.col.specular = Color(0, 0)

\* C4: a light whose dot product with the normal is negative adds nothing
\* with its diffuse term, and a negative dot(normal, halfway) adds nothing
\* with the specular term (for a shininess > 0): the factors are clamped at 0.
C4_Original ==
    bp.pc = "done" =>
        \A i \in 1..Len(bp.log) :
            /\ FLt(bp.log[i].ldotn, F(0)) => bp.log[i].diffuse = bp.log[i].ambient
            /\ (FLt(bp.log[i].ndoth, F(0)) /\ bp.mat.shininess > 0)
                  => bp.log[i].specular = bp.log[i].diffuse

\* C5: a light whose three intensities are zero leaves the result as it is
\* without that light, wherever it is in the list.
C5_Original ==
    bp.pc = "done" =>
        \A i \in 1..Len(bp.lights) :
            IsZeroLight(bp.lights[i])
               => bp.result = Lighting(RemoveAt(bp.lights, i), bp.direction,
                                       bp.normal, bp.mat)

(***************************************************************************)
(* camera::Viewport and camera::Render.  Image-plane coordinates are held  *)
(* doubled (0, 1, 2 for 0, 0.5, 1), and so are the vectors that scale      *)
(* with them, to keep every value a whole number.                          *)
(***************************************************************************)
MaxSize == 3
MaxFocal == 2
MaxPixelWidth == 6

VCross(a, b) ==
    <<FSub(FMul(a[2], b[3]), FMul(a[3], b[2])),
      FSub(FMul(a[3], b[1]), FMul(a[1], b[3])),
      FSub(FMul(a[1], b[2]), FMul(a[2], b[1]))>>

RECURSIVE Gcd(_, _)
Gcd(a, b) == IF b = 0 THEN a ELSE Gcd(b, a % b)

NaNVec == <<NaN, NaN, NaN>>

\* v.normalized() for a vector of any length: the direction v / |v|, held
\* as the shortest whole-number vector u along v with its squared length,
\* standing for u / sqrt(len2); NaN for the zero vector
NormalizedDir(a) ==
    IF \E i \in 1..3 : ~IsFinite(a[i]) THEN [u |-> NaNVec, len2 |-> 1]
    ELSE LET g == Gcd(Gcd(Abs(a[1].v), Abs(a[2].v)), Abs(a[3].v))
         IN IF g = 0 THEN [u |-> NaNVec, len2 |-> 1]
            ELSE LET u == <<F(a[1].v \div g), F(a[2].v \div g), F(a[3].v \div g)>>
                 IN [u |-> u, len2 |-> VDot(u, u).v]

ViewOrigins == {V3(0, 0, 0), V3(1, -2, 3)}
ViewDirections == {V3(0, 0, 1), V3(-1, 0, 0), V3(0, 0, 2)}
ViewRights == {V3(1, 0, 0), V3(0, 1, 0), V3(1, 0, 1), V3(0, 0, 0)}
ViewSizes == [w : {F(n) : n \in 1..MaxSize}, h : {F(n) : n \in 1..MaxSize}]
FocalLens == {F(n) : n \in (-1)..MaxFocal}
PixelWidths == 1..MaxPixelWidth \cup {300}
\* location.x, location.y doubled
Locations2 == {0, 1, 2} \X {0, 1, 2}

\* location.x - 0.5, doubled (RecenterNone: were the 0.5 left out)
RecenterNone(x2) == F(x2)
Recenter(x2) == F(x2 - 1)

\* up(): self.cam.direction.cross(self.right)
Up(v) == VCross(v.cam.direction, v.right)

\* the vertical vector of ray(): self.right.cross(self.cam.direction)
RayVertical(v) == VCross(v.right, v.cam.direction)

\* self.right * (width * self.size.w)
\*     + self.right.cross(self.cam.direction) * (height * self.size.h), doubled
RayOnViewport2(v, loc2) ==
    VAdd(VScale(v.right, FMul(Recenter(loc2[1]), v.size.w)),
         VScale(RayVertical(v), FMul(Recenter(loc2[2]), v.size.h)))

\* let camera = self.cam.direction * -self.focal_len
\* (PinholeForward: were the sign left out)
PinholeForward(direction, focal_len) == VScale(direction, focal_len)
Pinhole(direction, focal_len) == VScale(direction, FNeg(focal_len))

\* Viewport::ray: (2 * (self.cam.origin + ray_on_viewport),
\*                 (ray_on_viewport - camera).normalized())
Ray(v, loc2) ==
    LET rov2 == RayOnViewport2(v, loc2)
        camera2 == VScale(Pinhole(v.cam.direction, v.focal_len), F(2))
    IN [origin2 |-> VAdd(VScale(v.cam.origin, F(2)), rov2),
        rot |-> NormalizedDir(VSub(rov2, camera2))]

\* Viewport::aspect is size.w / size.h; Render::height converts
\* width / aspect, which is width * size.h / size.w, to usize.  A whole
\* number converts to itself; the code does not say which way a fraction
\* goes (Into<usize> is given no rounding), so it goes down or up.
HeightQuotient(width, size) == [num |-> width * size.h.v, den |-> size.w.v]
IntoUsize(q) ==
    IF q.num % q.den = 0 THEN {q.num \div q.den}
    ELSE {q.num \div q.den, (q.num \div q.den) + 1}
Heights(width, size) == IntoUsize(HeightQuotient(width, size))

\* f.round(): the nearest whole number, halves away from zero (q >= 0)
Round(q) == (2 * q.num + q.den) \div (2 * q.den)

InitView ==
    /\ view \in [pc : {"idle"},
                 cam : [origin : ViewOrigins, direction : ViewDirections],
                 right : ViewRights, size : ViewSizes, focal_len : FocalLens,
                 width : PixelWidths]
    /\ geom = Off /\ tr = Off /\ de = Off /\ bp = Off /\ sc = Off /\ img = Off /\ jl = Off /\ nm = Off

\* viewport.ray(location)
RayCall ==
    /\ view.pc = "idle"
    /\ \E loc2 \in Locations2 :
          view' = [pc |-> "ray", cam |-> view.cam, right |-> view.right,
                   size |-> view.size, focal_len |-> view.focal_len,
                   width |-> view.width, location2 |-> loc2,
                   ray |-> Ray(view, loc2)]
    /\ UNCHANGED <<estimateVars, lightingVars, sceneVars, imageVars, juliaVars, normalVars>>

\* render.height()
HeightCall ==
    /\ view.pc = "idle"
    /\ \E h \in Heights(view.width, view.size) :
          view' = [pc |-> "height", cam |-> view.cam, right |-> view.right,
                   size |-> view.size, focal_len |-> view.focal_len,
                   width |-> view.width, height |-> h]
    /\ UNCHANGED <<estimateVars, lightingVars, sceneVars, imageVars, juliaVars, normalVars>>

\* viewport.up()
UpCall ==
    /\ view.pc = "idle"
    /\ view' = [pc |-> "up", cam |-> view.cam, right |-> view.right,
                size |-> view.size, focal_len |-> view.focal_len,
                width |-> view.width, up |-> Up(view)]
    /\ UNCHANGED <<estimateVars, lightingVars, sceneVars, imageVars, juliaVars, normalVars>>

NextView == RayCall \/ HeightCall \/ UpCall

SpecView == InitView /\ [][NextView]_vars

\* C6: with a positive focal length and a forward vector of length 1, the
\* ray through the centre of the image plane, (0.5, 0.5), starts at the
\* camera's position and points along the camera's forward vector.
C6_CenterRayIsForward ==
    (/\ view.pc = "ray"
     /\ view.location2 = <<1, 1>>
     /\ FGt(view.focal_len, F(0))
     /\ VMagnitude(view.cam.direction) = F(1))
    => /\ view.ray.rot = [u |-> view.cam.direction, len2 |-> 1]
       /\ view.ray.origin2 = VScale(view.cam.origin, F(2))

\* the centre ray of a viewport whose right vector and size are not trivial
C6_Witness ==
    /\ view.pc = "ray"
    /\ view.location2 = <<1, 1>>
    /\ FGt(view.focal_len, F(1))
    /\ VMagnitude(view.cam.direction) = F(1)
    /\ view.right = V3(1, 0, 1)
    /\ view.size = [w |-> F(3), h |-> F(2)]
    /\ view.cam.origin # V3(0, 0, 0)

\* C7: the pixel height is round(pixel_width / aspect()), aspect() being
\* size.w / size.h.
C7_Original ==
    view.pc = "height" => view.height = Round(HeightQuotient(view.width, view.size))

\* C14: up() is right x forward, the very vector by which ray() moves the
\* viewport point vertically, for every right and forward.
C14_Original ==
    view.pc = "up" =>
        /\ view.up = VCross(view.right, view.cam.direction)
        /\ view.up = RayVertical(view)

(***************************************************************************)
(* serialize: building a render::Scene from a serialize::Scene.            *)
(***************************************************************************)
MaxGeoms == 2
MaxSceneLights == 1
MaxRenders == 2

\* Result<T, SceneDeserializeErr>
NoErr == [kind |-> "none", payload |-> ""]
Ok(v) == [ok |-> TRUE, val |-> v, err |-> NoErr]
Err(e) == [ok |-> FALSE, val |-> <<>>, err |-> e]
UnknownMaterial(name) == [kind |-> "UnknownMaterial", payload |-> name]
UnknownCamera(name) == [kind |-> "UnknownCamera", payload |-> name]
ColorParseErr(str) == [kind |-> "ColorParseErr", payload |-> str]

\* the names and colour strings of a scene file
MaterialNames == {"matte", "gloss"}
CameraNames == {"main", "xyz"}
MaterialMaps == {{}, {"matte"}, {"matte", "gloss"}}
CameraMaps == {{}, {"main"}, {"main", "xyz"}}
\* Geometry::Julia: c, iterations and the flattened EstimatorBase
GeomEpsilons == {F(0), F(1)}
GeomCutoffs == {F(1)}
GeometryDescs == [material : MaterialNames, epsilon : GeomEpsilons, cutoff : GeomCutoffs,
                  max_steps : {MaxSteps}, c : {<<0, 0, 0, -1>>}, iterations : {1}]
LightDescs == [specular : {"red", "xyz"}, diffuse : {"red", "#zz"},
               ambient : {"red", "xyz"}, shininess : {"", "#zz"}]
RenderDescs == [camera : CameraNames]

\* Color::new_string: the strings that are colours; "" is none
ColorStrings == {"red", "rgba(1, 2, 3, 255)"}
DefaultColor == [rgba |-> "default"]

\* str_to_color
StrToColor(col) ==
    IF col \in ColorStrings THEN [some |-> TRUE, val |-> [rgba |-> col]]
    ELSE [some |-> FALSE, val |-> DefaultColor]

\* str_to_color_result
StrToColorResult(col) ==
    LET c == StrToColor(col)
    IN IF c.some THEN Ok(c.val) ELSE Err(ColorParseErr(col))

\* the shininess of TryFrom<&Material<String>>: the default for ""
\* (ShininessStrict: were "" parsed like the other fields)
ShininessStrict(str) == StrToColorResult(str)
Shininess(str) == IF str = "" THEN Ok(DefaultColor) ELSE StrToColorResult(str)

\* TryFrom<&Material<String>> for Material<Alpha<..>>: each ? returns the error
MaterialTryFrom(mat) ==
    LET specular == StrToColorResult(mat.specular)
        diffuse == StrToColorResult(mat.diffuse)
        ambient == StrToColorResult(mat.ambient)
        shininess == Shininess(mat.shininess)
    IN IF ~specular.ok THEN Err(specular.err)
       ELSE IF ~diffuse.ok THEN Err(diffuse.err)
       ELSE IF ~ambient.ok THEN Err(ambient.err)
       ELSE IF ~shininess.ok THEN Err(shininess.err)
       ELSE Ok([specular |-> specular.val, diffuse |-> diffuse.val,
                ambient |-> ambient.val, shininess |-> shininess.val])

\* TryFrom<Light<T>> for light::Light
LightTryFrom(light) ==
    LET col == MaterialTryFrom(light)
    IN IF ~col.ok THEN Err(col.err) ELSE Ok([col |-> col.val])

\* materials.get(m).ok_or_else(|| UnknownMaterial(m.clone()))
GetMaterial(materials, g) ==
    IF g.material \in materials THEN Ok([mat |-> g.material]) ELSE Err(UnknownMaterial(g.material))

\* cameras.get(&self.camera).ok_or_else(|| UnknownCamera(self.camera.clone()))
\* (IntoRenderAnyCamera: were a missing camera passed over)
IntoRenderAnyCamera(cameras, r) == Ok([view |-> r.camera])
IntoRender(cameras, r) ==
    IF r.camera \in cameras THEN Ok([view |-> r.camera]) ELSE Err(UnknownCamera(r.camera))

\* .collect::<Result<Vec<_>, _>>(): the values, or the first error
RECURSIVE Collect(_)
Collect(results) ==
    IF results = <<>> THEN Ok(<<>>)
    ELSE IF ~Head(results).ok THEN Err(Head(results).err)
    ELSE LET rest == Collect(Tail(results))
         IN IF rest.ok THEN Ok(<<Head(results).val>> \o rest.val) ELSE rest

\* From<&Julia<T>> for distance::Geometry<T>
FromJulia(julia) ==
    [max_steps |-> julia.max_steps,
     epsilon |-> julia.epsilon,
     cutoff |-> julia.cutoff,
     sample_size |-> julia.epsilon,
     de |-> [c |-> julia.c, iterations |-> julia.iterations]]

\* render::RenderGeometry { mat: materials.get(m)..?, geom: g }
RenderGeometry(materials, g) ==
    LET mat == GetMaterial(materials, g)
    IN IF mat.ok THEN Ok([mat |-> mat.val.mat, geom |-> FromJulia(g)]) ELSE mat

\* into_render_geoms
IntoRenderGeoms(geoms, materials) ==
    Collect([i \in 1..Len(geoms) |-> RenderGeometry(materials, geoms[i])])

\* TryFrom<&Scene<T>> for render::Scene: geometry, then lights, then renders
SceneTryFrom(scene) ==
    LET geometry == IntoRenderGeoms(scene.geometry, scene.materials)
        lights == Collect([i \in 1..Len(scene.lights) |-> LightTryFrom(scene.lights[i])])
        renders == Collect([i \in 1..Len(scene.renders) |->
                               IntoRender(scene.cameras, scene.renders[i])])
    IN IF ~geometry.ok THEN Err(geometry.err)
       ELSE IF ~lights.ok THEN Err(lights.err)
       ELSE IF ~renders.ok THEN Err(renders.err)
       ELSE Ok([geometry |-> geometry.val, lights |-> lights.val,
                renders |-> renders.val])

InitScene ==
    /\ sc \in [pc : {"parsed"},
               scene : [geometry : SeqsUpTo(GeometryDescs, MaxGeoms),
                        materials : MaterialMaps,
                        lights : SeqsUpTo(LightDescs, MaxSceneLights),
                        cameras : CameraMaps,
                        renders : SeqsUpTo(RenderDescs, MaxRenders)]]
    /\ geom = Off /\ tr = Off /\ de = Off /\ bp = Off /\ view = Off /\ img = Off /\ jl = Off /\ nm = Off

\* render::Scene::try_from(&scene)
BuildScene ==
    /\ sc.pc = "parsed"
    /\ sc' = [pc |-> "built", scene |-> sc.scene, result |-> SceneTryFrom(sc.scene)]
    /\ UNCHANGED <<estimateVars, lightingVars, viewVars, imageVars, juliaVars, normalVars>>

NextScene == BuildScene

SpecScene == InitScene /\ [][NextScene]_vars

\* what is wrong with a scene description
Range(f) == {f[i] : i \in DOMAIN f}
UnknownMaterialsOf(scene) ==
    {g.material : g \in {x \in Range(scene.geometry) : x.material \notin scene.materials}}
UnknownCamerasOf(scene) ==
    {r.camera : r \in {x \in Range(scene.renders) : x.camera \notin scene.cameras}}
BadColorsOf(scene) ==
    UNION {({l.specular, l.diffuse, l.ambient} \ ColorStrings)
              \cup ({l.shininess} \ (ColorStrings \cup {""}))
           : l \in Range(scene.lights)}
Defective(scene) ==
    UnknownMaterialsOf(scene) \cup UnknownCamerasOf(scene) \cup BadColorsOf(scene) # {}

\* C8: a scene that names an unknown camera or material, or has a light
\* colour that does not parse, builds no Scene: the result is an error,
\* UnknownCamera, UnknownMaterial or ColorParseErr, that carries one of the
\* offending names or strings.  A scene without such a defect builds, and an
\* empty shininess is then the default colour.
C8_DefectsAreErrors ==
    sc.pc = "built" =>
        /\ Defective(sc.scene) <=> ~sc.result.ok
        /\ ~sc.result.ok =>
              /\ sc.result.val = <<>>
              /\ sc.result.err.kind \in {"UnknownMaterial", "UnknownCamera", "ColorParseErr"}
              /\ sc.result.err.kind = "UnknownMaterial"
                    => sc.result.err.payload \in UnknownMaterialsOf(sc.scene)
              /\ sc.result.err.kind = "UnknownCamera"
                    => sc.result.err.payload \in UnknownCamerasOf(sc.scene)
              /\ sc.result.err.kind = "ColorParseErr"
                    => sc.result.err.payload \in BadColorsOf(sc.scene)
        /\ (UnknownMaterialsOf(sc.scene) \cup BadColorsOf(sc.scene) = {} /\ ~sc.result.ok)
              => sc.result.err.kind = "UnknownCamera"
        /\ (UnknownMaterialsOf(sc.scene) \cup UnknownCamerasOf(sc.scene) = {} /\ ~sc.result.ok)
              => sc.result.err.kind = "ColorParseErr"
        /\ (UnknownCamerasOf(sc.scene) \cup BadColorsOf(sc.scene) = {} /\ ~sc.result.ok)
              => sc.result.err.kind = "UnknownMaterial"
        /\ sc.result.ok =>
              \A i \in 1..Len(sc.scene.lights) :
                  sc.scene.lights[i].shininess = ""
                     => sc.result.val.lights[i].col.shininess = DefaultColor

\* a scene whose only defect is a render of a camera that is not in the map
C8_Witness ==
    /\ sc.pc = "built"
    /\ ~sc.result.ok
    /\ sc.result.err = UnknownCamera("xyz")
    /\ Len(sc.scene.geometry) > 0
    /\ Len(sc.scene.lights) > 0
    /\ Len(sc.scene.renders) = 2
    /\ sc.scene.renders[1].camera = "main"

\* C13: every Geometry of a built scene has epsilon < cutoff, and a scene
\* with a geometry description whose epsilon is >= its cutoff does not build.
C13_Original ==
    sc.pc = "built" =>
        /\ sc.result.ok =>
              \A i \in 1..Len(sc.result.val.geometry) :
                  FLt(sc.result.val.geometry[i].geom.epsilon,
                      sc.result.val.geometry[i].geom.cutoff)
        /\ (\E g \in Range(sc.scene.geometry) : FGe(g.epsilon, g.cutoff))
              => ~sc.result.ok

(***************************************************************************)
(* img::ImageData: 8-bit rgba image data                                   *)
(***************************************************************************)
MaxWidth == 3
MaxHeight == 3
MaxShade == 3
\* const CHANNELS: usize = 4
CHANNELS == 4

\* ImageData::new: Vec::with_capacity reserves room; the vector is empty
New(width, height) == [width |-> width, height |-> height, data |-> <<>>]

\* coords_to_inx
CoordsToInx(image, x, y) == y * image.width + x

\* the pixel functions: every pixel gets the four bytes of one shade
PixelFns == 0..MaxShade
Func(f, x, y) == LET shade == ((x + 2 * y + f) % (MaxShade + 1)) + 1
                 IN <<shade, shade, shade, shade>>

\* indexes(): (0..self.data.len()).step_by(CHANNELS)
Indexes(image) ==
    [i \in 1..((Len(image.data) + CHANNELS - 1) \div CHANNELS) |-> (i - 1) * CHANNELS]

\* coords(): (0..self.width).cycle().zip(0..self.height)
Coords(image) ==
    IF image.width = 0 THEN <<>>
    ELSE [i \in 1..image.height |-> <<(i - 1) % image.width, i - 1>>]

\* zip: as long as the shorter of the two
Zip(a, b) ==
    [i \in 1..(IF Len(a) < Len(b) THEN Len(a) ELSE Len(b)) |-> <<a[i], b[i]>>]

\* indexes_coords()
IndexesCoords(image) == Zip(Indexes(image), Coords(image))

\* set_inx: self.data[inx..inx + val.len()].copy_from_slice(val); the slice
\* panics when it does not lie within the data
SetInxFits(data, inx, val) == inx + Len(val) <= Len(data)
SetInx(data, inx, val) ==
    [i \in 1..Len(data) |->
        IF i > inx /\ i <= inx + Len(val) THEN val[i - inx] ELSE data[i]]

\* render_fn: for (inx, (x, y)) in self.indexes_coords() { self.set_inx(inx, func(x, y)) }
\* from the k-th pair on: the data, the calls of func, and whether set_inx panicked
RECURSIVE RenderFrom(_, _, _, _, _)
RenderFrom(pairs, k, f, data, calls) ==
    IF k > Len(pairs) THEN [data |-> data, calls |-> calls, panicked |-> FALSE]
    ELSE LET inx == pairs[k][1]
             xy == pairs[k][2]
             val == Func(f, xy[1], xy[2])
         IN IF ~SetInxFits(data, inx, val)
            THEN [data |-> data, calls |-> Append(calls, xy), panicked |-> TRUE]
            ELSE RenderFrom(pairs, k + 1, f, SetInx(data, inx, val), Append(calls, xy))

InitImage ==
    /\ \E width \in 0..MaxWidth, height \in 0..MaxHeight :
          img = [pc |-> "new", image |-> New(width, height), f |-> 0, calls |-> <<>>]
    /\ geom = Off /\ tr = Off /\ de = Off /\ bp = Off /\ view = Off /\ sc = Off /\ jl = Off /\ nm = Off

\* image.render_fn(func)
RenderFn ==
    /\ img.pc = "new"
    /\ \E f \in PixelFns :
          LET r == RenderFrom(IndexesCoords(img.image), 1, f, img.image.data, <<>>)
          IN img' = [pc |-> IF r.panicked THEN "panicked" ELSE "rendered",
                     image |-> [img.image EXCEPT !.data = r.data],
                     f |-> f, calls |-> r.calls]
    /\ UNCHANGED <<estimateVars, lightingVars, viewVars, sceneVars, juliaVars, normalVars>>

\* image.set(x, y, color)
Set ==
    /\ img.pc = "new"
    /\ \E x \in 0..MaxWidth, y \in 0..MaxHeight, f \in PixelFns :
          LET inx == CoordsToInx(img.image, x, y)
              val == Func(f, x, y)
          IN img' = IF SetInxFits(img.image.data, inx, val)
                    THEN [pc |-> "set", f |-> f, calls |-> <<<<x, y>>>>,
                          image |-> [img.image EXCEPT
                                        !.data = SetInx(img.image.data, inx, val)]]
                    ELSE [pc |-> "panicked", f |-> f, calls |-> <<<<x, y>>>>,
                          image |-> img.image]
    /\ UNCHANGED <<estimateVars, lightingVars, viewVars, sceneVars, juliaVars, normalVars>>

NextImage == RenderFn \/ Set

SpecImage == InitImage /\ [][NextImage]_vars

\* how often func was called for (x, y)
CallsOf(x, y) == Cardinality({i \in 1..Len(img.calls) : img.calls[i] = <<x, y>>})

\* C9: after render_fn every pixel (x, y) of the width x height image has
\* been given to the pixel function exactly once, and the four bytes at
\* (y * width + x) * 4 in the data are its colour.
C9_Original ==
    img.pc = "rendered" =>
        \A x \in 0..(img.image.width - 1), y \in 0..(img.image.height - 1) :
            LET slot == CoordsToInx(img.image, x, y) * CHANNELS
            IN /\ CallsOf(x, y) = 1
               /\ slot + CHANNELS <= Len(img.image.data)
               /\ \A c \in 1..CHANNELS :
                     img.image.data[slot + c] = Func(img.f, x, y)[c]

(***************************************************************************)
(* distance::Julia, the quaternion Julia set estimator.                    *)
(*                                                                         *)
(* A vek::Quaternion<T> is <<x, y, z, w>> with w the real part.  The       *)
(* positions and constants drawn are whole numbers and the loop is short,  *)
(* so that every component stays a finite whole number.                    *)
(***************************************************************************)
MaxIterations == 3
MaxCoord == 1

Quat(x, y, z, w) == <<x, y, z, w>>

\* Quaternion::from(Vec4::from(pos)): w is 0
QFromPos(pos) == Quat(pos[1], pos[2], pos[3], 0)

\* Quaternion::from(Vec4::right()): (1, 0, 0, 0)
QRight == Quat(1, 0, 0, 0)

\* a * b, the Hamilton product
QMul(a, b) ==
    Quat(a[4] * b[1] + a[1] * b[4] + a[2] * b[3] - a[3] * b[2],
         a[4] * b[2] - a[1] * b[3] + a[2] * b[4] + a[3] * b[1],
         a[4] * b[3] + a[1] * b[2] - a[2] * b[1] + a[3] * b[4],
         a[4] * b[4] - a[1] * b[1] - a[2] * b[2] - a[3] * b[3])

QAdd(a, b) == Quat(a[1] + b[1], a[2] + b[2], a[3] + b[3], a[4] + b[4])
QScale(a, s) == Quat(a[1] * s, a[2] * s, a[3] * s, a[4] * s)
MagnitudeSquared(a) == a[1] * a[1] + a[2] * a[2] + a[3] * a[3] + a[4] * a[4]

JuliaPositions == {<<x, y, z>> : x \in (-MaxCoord)..MaxCoord, y \in {0, 1}, z \in {0}}
JuliaCs == {Quat(0, 0, 0, 0), Quat(0, 0, 0, 1), Quat(0, 0, 0, -1), Quat(0, 1, 0, 0)}

\* qp = (q * qp) * t2
NextQp(q, qp) == QScale(QMul(q, qp), 2)
\* q = q * q + self.c
NextQ(q, c) == QAdd(QMul(q, q), c)
\* if q.magnitude_squared() > t16 { break; }
Escaped(q) == MagnitudeSquared(q) > 16

\* a finite distance |q| ln |q| / (2 |q'|), held by the squared magnitudes
\* q2 = |q|^2 >= 1 and qp2 = |q'|^2 >= 1 it is computed from
JuliaFinite(q2, qp2) == [k |-> "fin", q2 |-> q2, qp2 |-> qp2]

\* mag_q * mag_q.ln() / (t2 * qp.magnitude()):
\*   |q| = 0: ln is -inf, 0 * -inf is NaN;
\*   |q'| = 0: the numerator over 0, which is NaN when |q| = 1 (0 / 0) and
\*             +inf when |q| > 1
Distance(q, qp) ==
    LET q2 == MagnitudeSquared(q)
        qp2 == MagnitudeSquared(qp)
    IN IF q2 = 0 THEN NaN
       ELSE IF qp2 = 0 THEN (IF q2 = 1 THEN NaN ELSE PInf)
       ELSE JuliaFinite(q2, qp2)

InitJulia ==
    /\ jl \in [pc : {"idle"}, c : JuliaCs, iterations : 0..MaxIterations]
    /\ geom = Off /\ tr = Off /\ de = Off /\ bp = Off /\ view = Off /\ sc = Off
    /\ img = Off /\ nm = Off

\* estimate(&self, pos): the locals before the loop
JuliaCall ==
    /\ jl.pc = "idle"
    /\ \E pos \in JuliaPositions :
          jl' = [pc |-> "loop", c |-> jl.c, iterations |-> jl.iterations,
                 pos |-> pos, q |-> QFromPos(pos), qp |-> QRight, i |-> 0,
                 escaped |-> FALSE]
    /\ UNCHANGED <<estimateVars, lightingVars, viewVars, sceneVars, imageVars, normalVars>>

\* one iteration of the loop
JuliaIterate ==
    /\ jl.pc = "loop"
    /\ jl.i < jl.iterations
    /\ ~jl.escaped
    /\ LET qp == NextQp(jl.q, jl.qp)
           q == NextQ(jl.q, jl.c)
       IN jl' = [jl EXCEPT !.qp = qp, !.q = q, !.i = jl.i + 1,
                           !.escaped = Escaped(q)]
    /\ UNCHANGED <<estimateVars, lightingVars, viewVars, sceneVars, imageVars, normalVars>>

\* after the loop: the distance
JuliaReturn ==
    /\ jl.pc = "loop"
    /\ jl.i >= jl.iterations \/ jl.escaped
    /\ jl' = [pc |-> "done", c |-> jl.c, iterations |-> jl.iterations,
              pos |-> jl.pos, q |-> jl.q, qp |-> jl.qp, i |-> jl.i,
              escaped |-> jl.escaped,
              result |-> Distance(jl.q, jl.qp)]
    /\ UNCHANGED <<estimateVars, lightingVars, viewVars, sceneVars, imageVars, normalVars>>

NextJulia == JuliaCall \/ JuliaIterate \/ JuliaReturn

SpecJulia == InitJulia /\ [][NextJulia]_vars

\* C11: when q' has magnitude zero after the loop, estimate returns a finite
\* value, never an infinity or NaN.
C11_Original ==
    (jl.pc = "done" /\ MagnitudeSquared(jl.qp) = 0) => IsFinite(jl.result)

(***************************************************************************)
(* Geometry::normal                                                        *)
(***************************************************************************)
SampleSizes == {F(0), F(1)}
NormalPositions == {V3(0, 0, 0), V3(1, 0, 0)}
\* the distances the estimator answers the queries of normal() with
SampledDists == {F(0), F(1), F(MaxDist), NaN, PInf}

\* the positions asked about, in the order of evaluation:
\* pos + x, pos - x, pos + y, pos - y, pos + z, pos - z
SamplePositions(pos, sample_size) ==
    LET zero == F(0)
        x == <<sample_size, zero, zero>>
        y == <<zero, sample_size, zero>>
        z == <<zero, zero, sample_size>>
    IN <<VAdd(pos, x), VSub(pos, x), VAdd(pos, y), VSub(pos, y),
         VAdd(pos, z), VSub(pos, z)>>

\* Vec3::new(de(pos + x) - de(pos - x), de(pos + y) - de(pos - y),
\*           de(pos + z) - de(pos - z))
Differences(answers) ==
    <<FSub(answers[1], answers[2]), FSub(answers[3], answers[4]),
      FSub(answers[5], answers[6])>>

\* v.normalized() is v / v.magnitude(), component by component: with a NaN
\* component the magnitude is NaN; with an infinite one it is +inf, so that
\* inf / inf is NaN and finite / inf is 0; the zero vector gives 0 / 0
NormalizedAny(a) ==
    IF \E i \in 1..3 : IsNaN(a[i]) THEN [u |-> NaNVec, len2 |-> 1]
    ELSE IF \E i \in 1..3 : IsInfinite(a[i])
         THEN [u |-> [i \in 1..3 |-> IF IsInfinite(a[i]) THEN NaN ELSE F(0)], len2 |-> 1]
    ELSE NormalizedDir(a)

InitNormal ==
    /\ geom \in [sample_size : SampleSizes]
    /\ de = {}
    /\ nm = [pc |-> "idle"]
    /\ tr = Off /\ bp = Off /\ view = Off /\ sc = Off /\ img = Off /\ jl = Off

\* normal(&self, pos)
NormalCall ==
    /\ nm.pc = "idle"
    /\ \E pos \in NormalPositions :
          nm' = [pc |-> "sample", pos |-> pos,
                 queries |-> SamplePositions(pos, geom.sample_size),
                 answers |-> <<>>]
    /\ UNCHANGED <<geom, tr, de, lightingVars, viewVars, sceneVars, imageVars, juliaVars>>

\* self.de.estimate(..), one of the six
NormalQuery ==
    /\ nm.pc = "sample"
    /\ Len(nm.answers) < Len(nm.queries)
    /\ LET p == nm.queries[Len(nm.answers) + 1]
       IN \E dist \in Answers(de, p) \cap SampledDists :
             /\ de' = de \cup {<<p, dist>>}
             /\ nm' = [nm EXCEPT !.answers = Append(nm.answers, dist)]
    /\ UNCHANGED <<geom, tr, lightingVars, viewVars, sceneVars, imageVars, juliaVars>>

\* Vec3::new(..).normalized()
NormalReturn ==
    /\ nm.pc = "sample"
    /\ Len(nm.answers) = Len(nm.queries)
    /\ nm' = [pc |-> "done", pos |-> nm.pos, queries |-> nm.queries,
              answers |-> nm.answers,
              result |-> NormalizedAny(Differences(nm.answers))]
    /\ UNCHANGED <<geom, tr, de, lightingVars, viewVars, sceneVars, imageVars, juliaVars>>

NextNormal == NormalCall \/ NormalQuery \/ NormalReturn

SpecNormal == InitNormal /\ [][NextNormal]_vars

\* a direction u / sqrt(len2) has a NaN component / has length one
HasNaN(n) == \E i \in 1..3 : IsNaN(n.u[i])
IsUnit(n) == ~HasNaN(n) /\ VDot(n.u, n.u) = F(n.len2)

\* C12: normal asks the estimator at pos +/- sample_size along each axis,
\* six times in all; when the three differences are zero the result has no
\* NaN component, and in every other case it has unit length.
C12_Original ==
    nm.pc = "done" =>
        /\ Len(nm.answers) = 6
        /\ \A i \in 1..3 :
              /\ nm.queries[2 * i - 1] = [nm.pos EXCEPT ![i] = FAdd(@, geom.sample_size)]
              /\ nm.queries[2 * i] = [nm.pos EXCEPT ![i] = FSub(@, geom.sample_size)]
        /\ IF Differences(nm.answers) = V3(0, 0, 0)
           THEN ~HasNaN(nm.result)
           ELSE IsUnit(nm.result)

====
